---- MODULE Spec2Model ----
(***************************************************************************)
(* State machine of the defi-slots client: the wallet session hook         *)
(* (useWeb3), the wallet button (WalletConnection) and the wager logic     *)
(* (useGameState).                                                         *)
(*                                                                         *)
(* Amounts of ether are integers counted in units of 0.0005 ETH, so that   *)
(* the bet step 0.001 and one halving of every multiple of it are exact.   *)
(* JavaScript's floating point rounding is not modelled: arithmetic on     *)
(* amounts is exact, a quotient is kept as a reduced fraction, and a       *)
(* division by zero yields Infinity as in IEEE 754.                        *)
(*                                                                         *)
(* React state is the value committed after the handler's batched          *)
(* setState calls; the render that follows every commit is part of the     *)
(* action (it decides whether useCallback hands out a new closure).        *)
(* gameState.balance and its fetch effect, and the constant                *)
(* gameState.comboMultiplier, are left out: nothing reads them.            *)
(***************************************************************************)
EXTENDS Integers, FiniteSets, Bags, TLC

\* ------------------------------------------------------------- constants
\* 0.001 ETH, in units of 0.0005 ETH
MIN_BET == 2
\* 0.05 ETH
MAX_BET == 100
\* the literal 0.001 of increaseBet and decreaseBet
BET_STEP == 2
\* wei per unit of amount, scaled down from 5 * 10^14 to fit TLC's integers
WeiPerUnit == 1000

\* --------------------------------------------------------------- bounds
\* connectWallet calls awaiting the provider, per hook instance
MaxPending == 2
\* wagers awaiting contract.spin or tx.wait
MaxInFlight == 2
\* cap of gameState.consecutiveWins
MaxWins == 2
\* largest bet amount the relative bet operations act on in Spec
MaxSessionBet == 4
\* largest bet amount of BetSpec
MaxBetAmount == 204

NULL == [tag |-> "null"]

\* the two components that call useWeb3(), each with its own hook state
BUTTON == "WalletConnection"
GAME == "useGameState"
Holders == {BUTTON, GAME}

\* identities the wallet provider can hand out
Addresses == {[address |-> "0xA11CE"]}

ErrorTags == {"BetTooLow", "BetTooHigh", "InsufficientPoolBalance"}

VARIABLES
  ethereum,   \* window.ethereum: [installed, selectedAddress]
  web3,       \* per hook instance: [account, contract, isConnecting]
  pending,    \* per hook instance: connectWallet calls awaiting getSigner
  gameState,  \* [betAmount, isSpinning, lastResult, consecutiveWins]
  spinMemo,   \* what the memoized spin callback captured at its last renewal
  inflight,   \* bag of spin() calls suspended at an await
  lastRound,  \* the wager and the Spin event of the last receipt processed
  toast,      \* the notification raised by the last step, or "none"
  page,       \* how this page load began, and whether the user asked to connect
  lastOp      \* the handler or continuation that ran last

vars == <<ethereum, web3, pending, gameState, spinMemo, inflight, lastRound,
          toast, page, lastOp>>

\* ------------------------------------------------------------- helpers
Max(a, b) == IF a >= b THEN a ELSE b

RECURSIVE GCD(_, _)
GCD(a, b) == IF b = 0 THEN a ELSE GCD(b, a % b)

Zero == [num |-> 0, den |-> 1]
Infinity == [num |-> 1, den |-> 0]
NaN == [num |-> 0, den |-> 0]

\* the IEEE quotient p / b of two non-negative amounts, as a reduced fraction
Quot(p, b) ==
  IF b = 0 THEN (IF p = 0 THEN NaN ELSE Infinity)
  ELSE [num |-> p \div GCD(p, b), den |-> b \div GCD(p, b)]

\* ethers.parseEther(amount.toString()): ether to wei
ParseEther(amt) == amt * WeiPerUnit

\* parseFloat(ethers.formatEther(wei)): wei to ether
FormatEther(wei) == wei \div WeiPerUnit

\* new ethers.Contract(CONTRACT_ADDRESS, CONTRACT_ABI, signer)
Contract(signer) == [signer |-> signer]

\* ------------------------------------------------------------- useWeb3
\* useState initial values of one hook instance
Web3Initial == [account |-> NULL, contract |-> NULL, isConnecting |-> FALSE]

\* the effect that runs once after mount
AutoConnects(eth) == eth.installed /\ eth.selectedAddress # NULL

\* the values the spin callback closes over when useCallback renews it
Capture(w, gs) ==
  [contract |-> w.contract, account |-> w.account,
   betAmount |-> gs.betAmount, isSpinning |-> gs.isSpinning]

\* useCallback: the closure is renewed only when a dependency changed
Memo(old, w, gs) ==
  IF old.contract # w.contract \/ old.account # w.account
       \/ old.betAmount # gs.betAmount
  THEN Capture(w, gs) ELSE old

GameInitial ==
  [betAmount |-> MIN_BET, isSpinning |-> FALSE, lastResult |-> NULL,
   consecutiveWins |-> 0]

\* A fresh page: every hook at its initial state, then the mount effects of
\* both useWeb3 instances, each of which calls connectWallet when the
\* provider reports an authorised identity.
LoadPage(eth, how) ==
  /\ ethereum' = eth
  /\ web3' = [h \in Holders |->
                [Web3Initial EXCEPT !.isConnecting = AutoConnects(eth)]]
  /\ pending' = [h \in Holders |-> IF AutoConnects(eth) THEN 1 ELSE 0]
  /\ gameState' = GameInitial
  /\ spinMemo' = Capture(Web3Initial, GameInitial)
  /\ inflight' = EmptyBag
  /\ lastRound' = NULL
  /\ toast' = "none"
  /\ page' = [loadedBy |-> how, userConnect |-> FALSE]
  /\ lastOp' = how

Environments ==
  {[installed |-> FALSE, selectedAddress |-> NULL]}
    \cup {[installed |-> TRUE, selectedAddress |-> a] : a \in Addresses \cup {NULL}}

Init ==
  \E eth \in Environments :
    /\ ethereum = eth
    /\ web3 = [h \in Holders |->
                 [Web3Initial EXCEPT !.isConnecting = AutoConnects(eth)]]
    /\ pending = [h \in Holders |-> IF AutoConnects(eth) THEN 1 ELSE 0]
    /\ gameState = GameInitial
    /\ spinMemo = Capture(Web3Initial, GameInitial)
    /\ inflight = EmptyBag
    /\ lastRound = NULL
    /\ toast = "none"
    /\ page = [loadedBy |-> "navigate", userConnect |-> FALSE]
    /\ lastOp = "navigate"

\* connectWallet with the window.ethereum test forgotten
connectWalletUnguarded(h, op) ==
  /\ web3' = [web3 EXCEPT ![h].isConnecting = TRUE]
  /\ pending' = [pending EXCEPT ![h] = @ + 1]
  /\ toast' = "none"
  /\ page' = [page EXCEPT !.userConnect = TRUE]
  /\ lastOp' = op
  /\ UNCHANGED <<ethereum, gameState, spinMemo, inflight, lastRound>>

\* connectWallet up to its first await
connectWallet(h, op) ==
  /\ IF ~ethereum.installed
     THEN /\ toast' = "Wallet not found"
          /\ UNCHANGED <<web3, pending>>
     ELSE /\ web3' = [web3 EXCEPT ![h].isConnecting = TRUE]
          /\ pending' = [pending EXCEPT ![h] = @ + 1]
          /\ toast' = "none"
  /\ page' = [page EXCEPT !.userConnect = TRUE]
  /\ lastOp' = op
  /\ UNCHANGED <<ethereum, gameState, spinMemo, inflight, lastRound>>

\* the Connect Wallet button, shown while account is null, disabled while connecting
ClickConnect ==
  /\ web3[BUTTON].account = NULL
  /\ ~web3[BUTTON].isConnecting
  /\ connectWallet(BUTTON, "ClickConnect")

\* the try block with its setContract call forgotten
ConnectResolvedAccountOnly(h, a) ==
  /\ pending[h] > 0
  /\ pending' = [pending EXCEPT ![h] = @ - 1]
  /\ web3' = [web3 EXCEPT ![h].account = a, ![h].isConnecting = FALSE]
  /\ ethereum' = [ethereum EXCEPT !.selectedAddress = a]
  /\ spinMemo' = IF h = GAME THEN Capture(web3'[GAME], gameState) ELSE spinMemo
  /\ toast' = "Connected"
  /\ lastOp' = "ConnectResolved"
  /\ UNCHANGED <<gameState, inflight, lastRound, page>>

\* getSigner and getAddress resolved: the try block runs to its end, then finally
ConnectResolved(h, a) ==
  /\ pending[h] > 0
  /\ pending' = [pending EXCEPT ![h] = @ - 1]
  /\ web3' = [web3 EXCEPT ![h] =
                [account |-> a, contract |-> Contract(a), isConnecting |-> FALSE]]
  /\ ethereum' = [ethereum EXCEPT !.selectedAddress = a]
  /\ spinMemo' = IF h = GAME THEN Capture(web3'[GAME], gameState) ELSE spinMemo
  /\ toast' = "Connected"
  /\ lastOp' = "ConnectResolved"
  /\ UNCHANGED <<gameState, inflight, lastRound, page>>

\* the catch block tearing the session down (setAccount(null), setContract(null))
ConnectRejectedClearsSession(h) ==
  /\ pending[h] > 0
  /\ pending' = [pending EXCEPT ![h] = @ - 1]
  /\ web3' = [web3 EXCEPT ![h] = Web3Initial]
  /\ toast' = "Connection Failed"
  /\ lastOp' = "ConnectRejected"
  /\ UNCHANGED <<ethereum, gameState, spinMemo, inflight, lastRound, page>>

\* the provider declined or threw: catch, then finally
ConnectRejected(h) ==
  /\ pending[h] > 0
  /\ pending' = [pending EXCEPT ![h] = @ - 1]
  /\ web3' = [web3 EXCEPT ![h].isConnecting = FALSE]
  /\ toast' = "Connection Failed"
  /\ lastOp' = "ConnectRejected"
  /\ UNCHANGED <<ethereum, gameState, spinMemo, inflight, lastRound, page>>

\* the Disconnect menu item, shown while account is set: window.location.reload()
Disconnect ==
  /\ web3[BUTTON].account # NULL
  /\ LoadPage(ethereum, "disconnect")

\* -------------------------------------------------------- useGameState
\* setGameState(p => ({...p, betAmount: amt})), then the render
SetBet(amt, op) ==
  /\ gameState' = [gameState EXCEPT !.betAmount = amt]
  /\ spinMemo' = Memo(spinMemo, web3[GAME], gameState')
  /\ toast' = "none"
  /\ lastOp' = op
  /\ UNCHANGED <<ethereum, web3, pending, inflight, lastRound, page>>

setBetAmount(amt) == SetBet(amt, "setBetAmount")

increaseBet == SetBet(gameState.betAmount + BET_STEP, "increaseBet")

\* decreaseBet with the Math.max(MIN_BET, ...) clamp forgotten
decreaseBetUnclamped == SetBet(gameState.betAmount - BET_STEP, "decreaseBet")

decreaseBet == SetBet(Max(MIN_BET, gameState.betAmount - BET_STEP), "decreaseBet")

setMinBet == SetBet(MIN_BET, "setMinBet")

\* setMaxBet built on the initial state instead of the previous one
setMaxBetFromInitial ==
  /\ gameState' = [GameInitial EXCEPT !.betAmount = MAX_BET]
  /\ spinMemo' = Memo(spinMemo, web3[GAME], gameState')
  /\ toast' = "none"
  /\ lastOp' = "setMaxBet"
  /\ UNCHANGED <<ethereum, web3, pending, inflight, lastRound, page>>

setMaxBet == SetBet(MAX_BET, "setMaxBet")

doubleBet == SetBet(gameState.betAmount * 2, "doubleBet")

\* exact when betAmount is even or the quotient is below MIN_BET
halfBet == SetBet(Max(MIN_BET, gameState.betAmount \div 2), "halfBet")

clearLastResult ==
  /\ gameState' = [gameState EXCEPT !.lastResult = NULL]
  /\ spinMemo' = Memo(spinMemo, web3[GAME], gameState')
  /\ toast' = "none"
  /\ lastOp' = "clearLastResult"
  /\ UNCHANGED <<ethereum, web3, pending, inflight, lastRound, page>>

\* spin(), first guard: no contract or no account in the closure
spinNoSession ==
  /\ spinMemo.contract = NULL \/ spinMemo.account = NULL
  /\ connectWallet(GAME, "spin/connectWallet")

\* spin(), second guard: the closure's gameState.isSpinning
spinIgnored ==
  /\ spinMemo.contract # NULL /\ spinMemo.account # NULL
  /\ spinMemo.isSpinning
  /\ toast' = "none"
  /\ lastOp' = "spin/ignored"
  /\ UNCHANGED <<ethereum, web3, pending, gameState, spinMemo, inflight,
                 lastRound, page>>

\* spin() with its first guard (no contract or no account) forgotten
spinSubmitNoSessionGuard ==
  /\ ~spinMemo.isSpinning
  /\ gameState' = [gameState EXCEPT !.isSpinning = TRUE]
  /\ spinMemo' = Memo(spinMemo, web3[GAME], gameState')
  /\ inflight' = inflight (+) SetToBag({[betAmount |-> spinMemo.betAmount,
                                         value |-> ParseEther(spinMemo.betAmount),
                                         pc |-> "contract.spin"]})
  /\ toast' = "none"
  /\ lastOp' = "spin/contract.spin"
  /\ UNCHANGED <<ethereum, web3, pending, lastRound, page>>

\* spin() up to its first await: isSpinning is set and contract.spin is called
spinSubmit ==
  /\ spinMemo.contract # NULL /\ spinMemo.account # NULL
  /\ ~spinMemo.isSpinning
  /\ gameState' = [gameState EXCEPT !.isSpinning = TRUE]
  /\ spinMemo' = Memo(spinMemo, web3[GAME], gameState')
  /\ inflight' = inflight (+) SetToBag({[betAmount |-> spinMemo.betAmount,
                                         value |-> ParseEther(spinMemo.betAmount),
                                         pc |-> "contract.spin"]})
  /\ toast' = "none"
  /\ lastOp' = "spin/contract.spin"
  /\ UNCHANGED <<ethereum, web3, pending, lastRound, page>>

spin == spinNoSession \/ spinIgnored \/ spinSubmit

\* contract.spin resolved with the transaction: toast, then await tx.wait()
SpinSent(w) ==
  /\ w \in BagToSet(inflight)
  /\ w.pc = "contract.spin"
  /\ inflight' = (inflight (-) SetToBag({w})) (+) SetToBag({[w EXCEPT !.pc = "tx.wait"]})
  /\ toast' = "Spinning..."
  /\ lastOp' = "SpinSent"
  /\ UNCHANGED <<ethereum, web3, pending, gameState, spinMemo, lastRound, page>>

LosingMix ==
  << <<"cherry", "coin", "clover">>, <<"star", "fire", "seven">>,
     <<"diamond", "coin", "cherry">> >>

AllOf(symbol) ==
  << <<symbol, symbol, symbol>>, <<symbol, symbol, symbol>>,
     <<symbol, symbol, symbol>> >>

\* the threshold chain with its comparisons off by one (>= for >)
VisualReelsOffByOne(outcome) ==
  IF outcome >= 95 THEN AllOf("diamond")
  ELSE IF outcome >= 80 THEN AllOf("seven")
  ELSE IF outcome >= 45 THEN AllOf("coin")
  ELSE LosingMix

\* the outcome of the Spin event mapped to the symbols shown
VisualReels(outcome) ==
  IF outcome > 95 THEN AllOf("diamond")
  ELSE IF outcome > 80 THEN AllOf("seven")
  ELSE IF outcome > 45 THEN AllOf("coin")
  ELSE LosingMix

\* serverResult with the multiplier's quotient inverted (betAmount / payout)
ServerResultInverted(ev, betAmount) ==
  IF ev = NULL THEN NULL
  ELSE LET payout == FormatEther(ev.payout)
       IN [reels |-> VisualReels(ev.outcome),
           winAmount |-> payout,
           winningLines |-> IF payout > 0 THEN <<1>> ELSE <<>>,
           isJackpot |-> ev.outcome > 95,
           multiplier |-> IF payout > 0 THEN Quot(betAmount, payout) ELSE Zero]

\* serverResult: null without a Spin event in the receipt, else decoded from
\* the event's outcome and payout and the bet amount the closure holds
ServerResult(ev, betAmount) ==
  IF ev = NULL THEN NULL
  ELSE LET payout == FormatEther(ev.payout)
       IN [reels |-> VisualReels(ev.outcome),
           winAmount |-> payout,
           winningLines |-> IF payout > 0 THEN <<1>> ELSE <<>>,
           isJackpot |-> ev.outcome > 95,
           multiplier |-> IF payout > 0 THEN Quot(payout, betAmount) ELSE Zero]

\* the streak kept instead of reset by a round that wins nothing
NextWinsNoReset(result, wins) ==
  IF result # NULL /\ result.winAmount > 0 THEN wins + 1 ELSE wins

\* (serverResult?.winAmount || 0) > 0 ? prev.consecutiveWins + 1 : 0
NextWins(result, wins) ==
  IF result # NULL /\ result.winAmount > 0 THEN wins + 1 ELSE 0

\* the round decoded against the bet amount of the state at commit time
SpinReceiptCurrentBet(w, ev) ==
  /\ w \in BagToSet(inflight)
  /\ w.pc = "tx.wait"
  /\ inflight' = inflight (-) SetToBag({w})
  /\ LET serverResult == ServerResult(ev, gameState.betAmount)
     IN gameState' = [gameState EXCEPT
                        !.isSpinning = FALSE,
                        !.lastResult = serverResult,
                        !.consecutiveWins = NextWins(serverResult, @)]
  /\ spinMemo' = Memo(spinMemo, web3[GAME], gameState')
  /\ lastRound' = [betAmount |-> w.betAmount, value |-> w.value, event |-> ev]
  /\ toast' = "none"
  /\ lastOp' = "SpinReceipt"
  /\ UNCHANGED <<ethereum, web3, pending, page>>

\* tx.wait() resolved with the receipt: decode and commit the round
SpinReceipt(w, ev) ==
  /\ w \in BagToSet(inflight)
  /\ w.pc = "tx.wait"
  /\ inflight' = inflight (-) SetToBag({w})
  /\ LET serverResult == ServerResult(ev, w.betAmount)
     IN gameState' = [gameState EXCEPT
                        !.isSpinning = FALSE,
                        !.lastResult = serverResult,
                        !.consecutiveWins = NextWins(serverResult, @)]
  /\ spinMemo' = Memo(spinMemo, web3[GAME], gameState')
  /\ lastRound' = [betAmount |-> w.betAmount, value |-> w.value, event |-> ev]
  /\ toast' = "none"
  /\ lastOp' = "SpinReceipt"
  /\ UNCHANGED <<ethereum, web3, pending, page>>

\* the description of the error toast; a thrown value without a message makes
\* error.message.includes throw inside the catch block, before any toast
ErrorToast(error) ==
  IF ~error.hasMessage THEN "none"
  ELSE IF "InsufficientPoolBalance" \in error.tags THEN "House pool is empty!"
  ELSE IF "BetTooHigh" \in error.tags THEN "Bet too high for current pool!"
  ELSE IF "BetTooLow" \in error.tags THEN "Bet too low!"
  ELSE "Transaction failed"

Errors ==
  {[hasMessage |-> FALSE, tags |-> {}]}
    \cup {[hasMessage |-> TRUE, tags |-> t] : t \in SUBSET ErrorTags}

\* the catch block committing like the success path (consecutiveWins reset)
SpinFailedResetsWins(w, error) ==
  /\ w \in BagToSet(inflight)
  /\ inflight' = inflight (-) SetToBag({w})
  /\ gameState' = [gameState EXCEPT !.isSpinning = FALSE, !.consecutiveWins = 0]
  /\ spinMemo' = Memo(spinMemo, web3[GAME], gameState')
  /\ toast' = ErrorToast(error)
  /\ lastOp' = "SpinFailed"
  /\ UNCHANGED <<ethereum, web3, pending, lastRound, page>>

\* contract.spin or tx.wait rejected: the catch block
SpinFailed(w, error) ==
  /\ w \in BagToSet(inflight)
  /\ inflight' = inflight (-) SetToBag({w})
  /\ gameState' = [gameState EXCEPT !.isSpinning = FALSE]
  /\ spinMemo' = Memo(spinMemo, web3[GAME], gameState')
  /\ toast' = ErrorToast(error)
  /\ lastOp' = "SpinFailed"
  /\ UNCHANGED <<ethereum, web3, pending, lastRound, page>>

\* ------------------------------------------------------ specifications
\* the Spin events a receipt may carry: none, or an outcome and a payout in wei
Events(outcomes, payouts) ==
  {NULL} \cup {[outcome |-> o, payout |-> p * WeiPerUnit] : o \in outcomes, p \in payouts}

\* a relative bet operation acts within the explored range of amounts
Within(cap, result) == gameState.betAmount <= cap /\ result <= cap

HalfExact == gameState.betAmount % 2 = 0 \/ gameState.betAmount < 2 * MIN_BET

\* a round may raise consecutiveWins only below its cap
WinsBelowCap(ev) ==
  (ev # NULL /\ ev.payout > 0) => gameState.consecutiveWins < MaxWins

\* Spec is the whole page: both useWeb3 instances, the wallet button and the
\* wager logic, with bet amounts up to MaxSessionBet (setMaxBet and arbitrary
\* setBetAmount arguments are exercised in BetSpec and DecodeSpec).
SessionOutcomes == {96}
SessionPayouts == {0, 3}
SessionAmounts == {MIN_BET + BET_STEP}

Next ==
  \/ ClickConnect
  \/ \E h \in Holders, a \in Addresses : ConnectResolved(h, a)
  \/ \E h \in Holders : ConnectRejected(h)
  \/ Disconnect
  \/ \E amt \in SessionAmounts : setBetAmount(amt)
  \/ Within(MaxSessionBet, gameState.betAmount + BET_STEP) /\ increaseBet
  \/ Within(MaxSessionBet, gameState.betAmount) /\ decreaseBet
  \/ setMinBet
  \/ Within(MaxSessionBet, gameState.betAmount * 2) /\ doubleBet
  \/ Within(MaxSessionBet, gameState.betAmount) /\ HalfExact /\ halfBet
  \/ clearLastResult
  \/ pending[GAME] < MaxPending /\ spinNoSession
  \/ spinIgnored
  \/ BagCardinality(inflight) < MaxInFlight /\ spinSubmit
  \/ \E w \in BagToSet(inflight) : SpinSent(w)
  \/ \E w \in BagToSet(inflight), ev \in Events(SessionOutcomes, SessionPayouts) :
       WinsBelowCap(ev) /\ SpinReceipt(w, ev)
  \/ \E w \in BagToSet(inflight), error \in Errors : SpinFailed(w, error)

Spec == Init /\ [][Next]_vars

\* BetSpec is the bet-sizing API alone, over amounts up to MaxBetAmount.
BetAmounts == {0, 1, 3, 5, MAX_BET + 1}

BetNext ==
  \/ \E amt \in BetAmounts : setBetAmount(amt)
  \/ Within(MaxBetAmount, gameState.betAmount + BET_STEP) /\ increaseBet
  \/ Within(MaxBetAmount, gameState.betAmount) /\ decreaseBet
  \/ setMinBet
  \/ setMaxBet
  \/ Within(MaxBetAmount, gameState.betAmount * 2) /\ doubleBet
  \/ Within(MaxBetAmount, gameState.betAmount) /\ HalfExact /\ halfBet

BetSpec == Init /\ [][BetNext]_vars

\* DecodeSpec is one round of spin() from the receipt on, for every outcome
\* code and a range of payouts and bet amounts.  It starts where the page is
\* after an automatic connect, setBetAmount(bet), spin() and the resolution of
\* contract.spin.
DecodeOutcomes == 0 .. 100
DecodePayouts == {0, 1, 3, 6, 250}
DecodeBets == {0, 1, MIN_BET, 4, MAX_BET}

DecodeInit ==
  \E a \in Addresses, bet \in DecodeBets :
    LET w == [account |-> a, contract |-> Contract(a), isConnecting |-> FALSE]
        gs == [GameInitial EXCEPT !.betAmount = bet, !.isSpinning = TRUE]
    IN /\ ethereum = [installed |-> TRUE, selectedAddress |-> a]
       /\ web3 = [h \in Holders |-> w]
       /\ pending = [h \in Holders |-> 0]
       /\ gameState = gs
       /\ spinMemo = Capture(w, [gs EXCEPT !.isSpinning = FALSE])
       /\ inflight = SetToBag({[betAmount |-> bet, value |-> ParseEther(bet),
                                pc |-> "tx.wait"]})
       /\ lastRound = NULL
       /\ toast = "Spinning..."
       /\ page = [loadedBy |-> "navigate", userConnect |-> FALSE]
       /\ lastOp = "SpinSent"

DecodeNext ==
  \E w \in BagToSet(inflight), ev \in Events(DecodeOutcomes, DecodePayouts) :
    SpinReceipt(w, ev)

DecodeSpec == DecodeInit /\ [][DecodeNext]_vars

\* SizingSpec is the six bet-sizing operations alone, from betAmount = MIN_BET.
SizingNext ==
  \/ Within(MaxBetAmount, gameState.betAmount + BET_STEP) /\ increaseBet
  \/ Within(MaxBetAmount, gameState.betAmount) /\ decreaseBet
  \/ setMinBet
  \/ setMaxBet
  \/ Within(MaxBetAmount, gameState.betAmount * 2) /\ doubleBet
  \/ Within(MaxBetAmount, gameState.betAmount) /\ HalfExact /\ halfBet

SizingSpec == Init /\ [][SizingNext]_vars

\* SetterSpec is the absolute bet setters around one round of spin(): they act
\* while the wager is in flight and after its result is committed.
SetterNext ==
  \/ setMinBet
  \/ setMaxBet
  \/ \E amt \in BetAmounts : setBetAmount(amt)
  \/ \E w \in BagToSet(inflight), ev \in Events(DecodeOutcomes, SessionPayouts) :
       SpinReceipt(w, ev)

SetterSpec == DecodeInit /\ [][SetterNext]_vars

\* ---------------------------------------------------------------- claims
Positive(m) == m.num > 0

BetSizingOps ==
  {"increaseBet", "decreaseBet", "doubleBet", "halfBet", "setMinBet", "setMaxBet"}

\* C1: at most one wager is in flight at any time: a spin() invoked while an
\* earlier wager has not reached its terminal signal submits no second
\* contract call.
C1_OneWagerInFlight == BagCardinality(inflight) <= 1

\* C2: in every state reached from betAmount = MIN_BET through the six
\* bet-sizing operations, MIN_BET <= betAmount <= MAX_BET.
C2_BetWithinBounds ==
  MIN_BET <= gameState.betAmount /\ gameState.betAmount <= MAX_BET

\* C3: every SpinResult of a completed wager has winAmount > 0 iff winningLines
\* is non-empty iff multiplier > 0, and isJackpot only with winAmount > 0.
C3_ResultConsistent ==
  gameState.lastResult # NULL =>
    LET r == gameState.lastResult
    IN /\ (r.winAmount > 0) <=> (r.winningLines # <<>>)
       /\ (r.winAmount > 0) <=> Positive(r.multiplier)
       /\ r.isJackpot => r.winAmount > 0

\* C4: the page has one session: the wallet button and the wager logic observe
\* the same account and the same contract handle.
C4_OneSessionPerPage ==
  /\ web3[BUTTON].account = web3[GAME].account
  /\ web3[BUTTON].contract = web3[GAME].contract

\* C5: a page load invokes connect() automatically exactly once when the
\* provider reports an authorised identity, and not at all otherwise.
C5_AutoConnectOnce ==
  lastOp \in {"navigate", "disconnect"} =>
    pending[BUTTON] + pending[GAME] = (IF AutoConnects(ethereum) THEN 1 ELSE 0)

\* C6: after the reload of the Disconnect item every account is null and stays
\* null until the user asks to connect again.
C6_DisconnectedUntilUserConnects ==
  (page.loadedBy = "disconnect" /\ ~page.userConnect) =>
    \A h \in Holders : web3[h].account = NULL

\* C7: a round played with bet amount 0 has multiplier 0 for every payout, and
\* no non-finite value.
C7_ZeroBetZeroMultiplier ==
  (lastRound # NULL /\ lastRound.betAmount = 0 /\ gameState.lastResult # NULL) =>
    gameState.lastResult.multiplier = Zero

C8_Grid(symbol) ==
  << <<symbol, symbol, symbol>>, <<symbol, symbol, symbol>>,
     <<symbol, symbol, symbol>> >>

\* C8: the decoded grid and isJackpot follow the threshold table of the outcome
\* code, whatever the payout and the bet: 96..100 all diamonds and jackpot,
\* 81..95 all sevens, 46..80 all coins, 0..45 the losing mosaic, and no
\* jackpot for any code <= 95.
C8_ThresholdTable ==
  (lastRound # NULL /\ lastRound.event # NULL) =>
    LET o == lastRound.event.outcome
        r == gameState.lastResult
    IN /\ r # NULL
       /\ o \in 96 .. 100 => r.reels = C8_Grid("diamond") /\ r.isJackpot
       /\ o \in 81 .. 95 => r.reels = C8_Grid("seven") /\ ~r.isJackpot
       /\ o \in 46 .. 80 => r.reels = C8_Grid("coin") /\ ~r.isJackpot
       /\ o \in 0 .. 45 =>
            /\ r.reels = << <<"cherry", "coin", "clover">>,
                            <<"star", "fire", "seven">>,
                            <<"diamond", "coin", "cherry">> >>
            /\ ~r.isJackpot

C8_Witness ==
  /\ lastRound # NULL /\ lastRound.event # NULL
  /\ lastRound.event.outcome = 96 /\ lastRound.event.payout = 0
  /\ gameState.lastResult.isJackpot

\* C9: winAmount is the payout of the Spin event, winningLines is {1} exactly
\* when the payout is positive, and the multiplier is payout / betAmount for a
\* positive payout and bet and 0 for a zero payout, whatever the outcome code.
C9_WinFromPayout ==
  (lastRound # NULL /\ lastRound.event # NULL) =>
    LET payout == lastRound.event.payout
        bet == lastRound.betAmount
        r == gameState.lastResult
    IN /\ r # NULL
       /\ r.winAmount * WeiPerUnit = payout
       /\ r.winningLines = (IF payout > 0 THEN <<1>> ELSE <<>>)
       /\ (payout > 0 /\ bet > 0) =>
            /\ r.multiplier.den > 0
            /\ r.multiplier.num * bet * WeiPerUnit = payout * r.multiplier.den
       /\ payout = 0 => r.multiplier = Zero

C9_Witness ==
  /\ lastRound # NULL /\ lastRound.event # NULL
  /\ lastRound.betAmount = 4 /\ lastRound.event.payout = 6 * WeiPerUnit
  /\ lastRound.event.outcome = 10
  /\ gameState.lastResult.multiplier = [num |-> 3, den |-> 2]

\* C10: decreaseBet and halfBet leave betAmount >= MIN_BET from any current
\* amount, and no bet-sizing operation takes betAmount from MIN_BET or above
\* to below MIN_BET.
C10_NeverBelowMin ==
  [][/\ lastOp' \in {"decreaseBet", "halfBet"} => gameState'.betAmount >= MIN_BET
     /\ (gameState.betAmount >= MIN_BET /\ lastOp' \in BetSizingOps)
          => gameState'.betAmount >= MIN_BET]_vars

C10_Witness ==
  lastOp \in {"decreaseBet", "halfBet"} /\ gameState.betAmount = MIN_BET

Wagers(bag) == BagCardinality(bag)

SessionOf(w) == [account |-> w.account, contract |-> w.contract]

\* C11: a failed wager leaves account and contract of every session holder
\* unchanged, and betAmount, lastResult and consecutiveWins too: isSpinning
\* becoming false is the only change of the game state.  It is not
\* resubmitted: a contract spin call is added only by a spin() invocation.
C11_FailureLeavesState ==
  [][/\ lastOp' = "SpinFailed" =>
          /\ \A h \in Holders : SessionOf(web3'[h]) = SessionOf(web3[h])
          /\ gameState' = [gameState EXCEPT !.isSpinning = FALSE]
          /\ Wagers(inflight') = Wagers(inflight) - 1
     /\ Wagers(inflight') > Wagers(inflight) => lastOp' = "spin/contract.spin"]_vars

C11_Witness ==
  /\ lastOp = "SpinFailed"
  /\ ~gameState.isSpinning
  /\ gameState.lastResult # NULL
  /\ gameState.consecutiveWins > 0
  /\ web3[GAME].account # NULL

\* C12: connect() without a wallet provider raises the provider-unavailable
\* notification and creates no session: account and contract stay null,
\* isConnecting is never true and no signer request is pending.
C12_NoProviderNoSession ==
  ~ethereum.installed =>
    /\ \A h \in Holders : web3[h] = Web3Initial /\ pending[h] = 0
    /\ lastOp \in {"ClickConnect", "spin/connectWallet"} => toast = "Wallet not found"

C12_Witness ==
  ~ethereum.installed /\ lastOp = "ClickConnect" /\ toast = "Wallet not found"

\* C13: when the provider declines or throws, one failure notification is
\* raised, account and contract of every holder keep their values,
\* isConnecting of the caller is false, and no connect() is started by the
\* failure: calls are started only by the button, by spin() or by a page load.
C13_RejectedConnect ==
  [][/\ lastOp' = "ConnectRejected" =>
          /\ toast' = "Connection Failed"
          /\ \A h \in Holders : SessionOf(web3'[h]) = SessionOf(web3[h])
          /\ \E h \in Holders :
               /\ pending' = [pending EXCEPT ![h] = @ - 1]
               /\ ~web3'[h].isConnecting
     /\ (\E h \in Holders : pending'[h] > pending[h]) =>
          lastOp' \in {"ClickConnect", "spin/connectWallet", "disconnect"}]_vars

C13_Witness ==
  /\ lastOp = "ConnectRejected"
  /\ toast = "Connection Failed"
  /\ web3[GAME].account # NULL
  /\ ~web3[GAME].isConnecting

C14_TagMessage(tag) ==
  IF tag = "BetTooLow" THEN "Bet too low!"
  ELSE IF tag = "BetTooHigh" THEN "Bet too high for current pool!"
  ELSE "House pool is empty!"

C14_Expected(error) ==
  IF error.tags = {} THEN {"Transaction failed"}
  ELSE {C14_TagMessage(tag) : tag \in error.tags}

\* C14: every failed wager raises exactly one error notification: the message
\* of a tag its message contains, and the generic message for any other
\* failure, one without a message included.
C14_FailureNotified ==
  [][\A w \in BagToSet(inflight), error \in Errors :
       SpinFailed(w, error) => toast' \in C14_Expected(error)]_vars

\* C15: setMinBet and setMaxBet are idempotent and touch betAmount only.  Each
\* step of setMinBet (setMaxBet) replaces betAmount by MIN_BET (MAX_BET) and
\* keeps isSpinning, lastResult and consecutiveWins; a second application
\* straight after the first changes nothing at all.
C15_Target(op) == IF op = "setMinBet" THEN MIN_BET ELSE MAX_BET

C15_SettersIdempotent ==
  [][\A op \in {"setMinBet", "setMaxBet"} :
       /\ lastOp' = op =>
            gameState' = [gameState EXCEPT !.betAmount = C15_Target(op)]
       /\ (lastOp = op /\ lastOp' = op) => UNCHANGED vars]_vars

C15_Witness ==
  /\ lastOp = "setMaxBet"
  /\ gameState.betAmount = MAX_BET
  /\ gameState.lastResult # NULL
  /\ gameState.consecutiveWins > 0

\* C16: isSpinning is true only while a wager is in flight, the step in which
\* a wager terminates (receipt with a Spin event, receipt without one, or
\* failure) leaves isSpinning false, and after it the game is not locked as
\* spinning: spin() is refused by its isSpinning guard only while the game
\* state is spinning.
C16_Terminal == {"SpinReceipt", "SpinFailed"}

C16_StateStep ==
  /\ gameState'.isSpinning => Wagers(inflight') > 0
  /\ lastOp' \in C16_Terminal =>
       /\ Wagers(inflight') = Wagers(inflight) - 1
       /\ ~gameState'.isSpinning
  /\ (gameState'.isSpinning /\ ~gameState.isSpinning) =>
       lastOp' = "spin/contract.spin"

C16_NeverLocked ==
  [][/\ C16_StateStep
     /\ lastOp' = "spin/ignored" => gameState.isSpinning]_vars

\* C17: the step that commits a completed wager replaces lastResult by that
\* round's result (null without a Spin event, else the event's payout and
\* jackpot flag) and sets consecutiveWins to the previous value plus 1 when
\* the round won something and to 0 otherwise; no other step of the loaded
\* page changes consecutiveWins, so it counts the winning rounds since the
\* last completed round that won nothing.
C17_Won(round) == round.event # NULL /\ round.event.payout > 0

C17_RoundResult(round, result) ==
  IF round.event = NULL THEN result = NULL
  ELSE /\ result # NULL
       /\ result.winAmount * WeiPerUnit = round.event.payout
       /\ result.isJackpot = (round.event.outcome > 95)

C17_CommitRound ==
  [][/\ lastOp' = "SpinReceipt" =>
          /\ C17_RoundResult(lastRound', gameState'.lastResult)
          /\ gameState'.consecutiveWins =
               IF C17_Won(lastRound') THEN gameState.consecutiveWins + 1 ELSE 0
     /\ gameState'.consecutiveWins # gameState.consecutiveWins =>
          lastOp' \in {"SpinReceipt", "disconnect"}]_vars

C17_Witness ==
  /\ lastOp = "SpinReceipt"
  /\ C17_Won(lastRound)
  /\ gameState.consecutiveWins >= 2
  /\ Wagers(inflight) > 0

\* C18: the multiplier of a winning round is the event's payout divided by the
\* amount that was sent as the value of that round's contract call, whatever
\* betAmount is when the round is committed.
C18_MultiplierOfSentValue ==
  [][(lastOp' = "SpinReceipt" /\ lastRound'.event # NULL
        /\ lastRound'.event.payout > 0) =>
       LET m == gameState'.lastResult.multiplier
       IN /\ m.den > 0
          /\ m.num * lastRound'.value = lastRound'.event.payout * m.den]_vars

C18_Witness ==
  /\ lastOp = "SpinReceipt"
  /\ lastRound.betAmount = MIN_BET
  /\ gameState.betAmount = MIN_BET + BET_STEP
  /\ gameState.lastResult # NULL
  /\ gameState.lastResult.multiplier = [num |-> 3, den |-> 2]

\* C19: spin() called while the hook holds no session (account or contract
\* null) submits no contract call, calls connectWallet and leaves the game
\* state as it is; spin() calls connectWallet in no other case, and a contract
\* call is submitted only while the hook holds a session.
C19_SpinOps == {"spin/connectWallet", "spin/ignored", "spin/contract.spin"}

C19_NoSession == web3[GAME].account = NULL \/ web3[GAME].contract = NULL

C19_ConnectAttempt ==
  IF ethereum.installed
  THEN pending'[GAME] = pending[GAME] + 1 /\ web3'[GAME].isConnecting
  ELSE toast' = "Wallet not found" /\ pending' = pending

C19_SpinNeedsSession ==
  [][/\ (lastOp' \in C19_SpinOps /\ C19_NoSession) =>
          /\ lastOp' = "spin/connectWallet"
          /\ C19_ConnectAttempt
          /\ gameState' = gameState
          /\ inflight' = inflight
     /\ lastOp' = "spin/connectWallet" => C19_NoSession
     /\ Wagers(inflight') > Wagers(inflight) => ~C19_NoSession]_vars

C19_Witness ==
  /\ lastOp = "spin/connectWallet"
  /\ web3[GAME].account = NULL
  /\ web3[GAME].isConnecting
  /\ pending[GAME] > 1
  /\ web3[BUTTON].account # NULL

\* C20: within one session holder account and contract are set together: in
\* every reachable state account is non-null iff contract is non-null, and a
\* contract that is set is the one built for the account's signer, whatever
\* the order in which overlapping connect attempts resolve or fail.
C20_AccountIffContract ==
  \A h \in Holders :
    /\ (web3[h].account # NULL) <=> (web3[h].contract # NULL)
    /\ web3[h].account # NULL => web3[h].contract = Contract(web3[h].account)

C20_Witness ==
  /\ lastOp = "ConnectResolved"
  /\ page.userConnect
  /\ web3[GAME].account # NULL
  /\ web3[GAME].contract # NULL
  /\ pending[GAME] > 0
  /\ web3[BUTTON].account = NULL

====
